---------------------------- MODULE Spec2Model ----------------------------
(***************************************************************************)
(* The stylesheet worker of ng-packagr                                     *)
(* (src/lib/styles/stylesheet-processor-worker.ts).                        *)
(*                                                                         *)
(* Three specifications:                                                     *)
(*   Spec / FairSpec  the job protocol: the "message" handler of the       *)
(*                    worker thread, the reply port and the shared signal  *)
(*                    cell of each job, and the host that blocks on the    *)
(*                    cell;                                                *)
(*   RenderSpec       renderCss as a function of the file path and the     *)
(*                    file content;                                        *)
(*   OptimizeSpec     optimizeCss and the result processCss builds from    *)
(*                    it, as functions of their arguments.                 *)
(***************************************************************************)
EXTENDS Integers, Sequences, FiniteSets, TLC

\* Number of job messages the hosts send to the one worker instance.
MaxJobs == 2

\* Number of directory segments put in front of a file name (RenderSpec,
\* OptimizeSpec).
MaxDepth == 1

\* Longest warning list the pipeline returns (OptimizeSpec).
MaxWarnings == 2

Jobs == 1..MaxJobs

VARIABLES
  inbox,      \* job messages posted to the worker and not yet dispatched (FIFO)
  pc,         \* pc[j]: where the handler invocation of job j stands
  ip,         \* ip[j]: index in HandlerSteps of its next statement (pc[j] = "body")
  running,    \* the job whose synchronous handler body holds the worker thread, or 0
  port,       \* port[j]: messages queued on the host side of job j's reply channel
  portClosed, \* portClosed[j]: port.close() was called on job j's port
  signal,     \* signal[j]: signal[0] of the Int32Array lent with job j
  posts,      \* posts[j]: number of postMessage calls on job j's port (history)
  notifies,   \* notifies[j]: number of Atomics.notify calls on job j's cell (history)
  trace,      \* trace[j]: what processCss of job j called and how it settled (history)
  host,       \* host[j]: where the host of job j stands
  waitResult, \* waitResult[j]: what the host's Atomics.wait returned, or "none"
  got,        \* got[j]: what the host took from the reply port after its wait
  filePath,   \* RenderSpec: the filePath argument of renderCss
  content,    \* RenderSpec: what readFile returns for it
  rpc,        \* RenderSpec: "start", then "done"
  engineCalls,\* RenderSpec: the preprocessor invocations renderCss made
  rendered,   \* RenderSpec: the value renderCss resolved with, or Rejected
  optCss,     \* OptimizeSpec: the css argument of optimizeCss (the rendered CSS)
  cssUrl,     \* OptimizeSpec: the cssUrl argument ("undefined" when omitted)
  browsers,   \* OptimizeSpec: the browsers argument (browserslistData)
  opc,        \* OptimizeSpec: "start", "awaiting" (optimizeCss called), "done"
  postCssPlugins, \* OptimizeSpec: the plugin chain handed to postcss(...)
  processOptions, \* OptimizeSpec: the {from, to} handed to .process(css, ...)
  lazyResult, \* OptimizeSpec: how the awaited LazyResult settles
  workerResult \* OptimizeSpec: what processCss resolves with, or its rejection

protoVars ==
  <<inbox, pc, ip, running, port, portClosed, signal, posts, notifies, trace, host,
    waitResult, got>>
renderVars == <<filePath, content, rpc, engineCalls, rendered>>
optVars == <<optCss, cssUrl, browsers, opc, postCssPlugins, processOptions, lazyResult, workerResult>>
vars == <<protoVars, renderVars, optVars>>

-----------------------------------------------------------------------------
(* The handler: parentPort.on("message", async ({signal, port, workerOptions}) => ...) *)

\* Atomics.add(signal, 0, 1): the value the cell holds afterwards.  The cell
\* is lent at 0 and a job adds 1 a bounded number of times, so the 32-bit
\* wrap of the Int32Array is out of reach.
AtomicsAddValue(v) == v + 1

\* The mutated statement orders of the handler body.
HandlerSteps_SignalFirst == <<"add", "post", "close", "notify">>
HandlerSteps_SignalBeforePost == <<"add", "notify", "post", "close">>
HandlerSteps_NotifyBeforeAdd == <<"post", "close", "notify", "add">>
HandlerSteps_NotifyBeforeClose == <<"post", "notify", "close", "add">>

\* The statements of the handler after `await processCss(workerOptions)`,
\* in program order: port.postMessage, port.close, Atomics.add, Atomics.notify.
HandlerSteps == <<"post", "close", "add", "notify">>

\* parentPort.once instead of parentPort.on: the handler is gone after one message.
HandlerRegistered_Once(nStarted) == nStarted = 0

\* parentPort.on registers a persistent listener: it is there for every message.
HandlerRegistered(nStarted) == TRUE

\* The message posted on the reply port: {...result} of job j.
Result(j) == [css |-> j, warnings |-> <<>>]

\* A handler that keeps the port of the first message for every later one.
PortOf_First(j) == 1

\* `port` is a parameter of the handler: each invocation has the port that
\* came with its own message.
PortOf(j) == j

\* `signal` is a parameter of the handler as well.
SignalOf(j) == j

\* processCss with the rejection of renderCss swallowed.
AfterRender_Swallow(ok) == "optimize"

\* processCss after `await renderCss(...)`: on to optimizeCss when it
\* resolved; when it rejected the await throws and processCss rejects.
AfterRender(ok) == IF ok THEN "optimize" ELSE "errored"

\* processCss after `await optimizeCss(...)`: builds and returns the result
\* when it resolved, rejects when it rejected.
AfterOptimize(ok) == IF ok THEN "body" ELSE "errored"

Started == {j \in Jobs : pc[j] # "idle"}

\* The statement job j executes next in the handler body.
Stmt(j) == IF pc[j] = "body" THEN HandlerSteps[ip[j]] ELSE "none"

\* The body runs to completion on the worker thread: its first statement
\* needs the thread free, the others need the thread held by this job.
CanRun(j) == IF ip[j] = 1 THEN running = 0 ELSE running = j

\* Move job j to its next statement, releasing the thread after the last.
Advance(j) ==
  IF ip[j] = Len(HandlerSteps)
  THEN /\ pc' = [pc EXCEPT ![j] = "done"]
       /\ ip' = [ip EXCEPT ![j] = 0]
       /\ running' = 0
  ELSE /\ pc' = pc
       /\ ip' = [ip EXCEPT ![j] = ip[j] + 1]
       /\ running' = j

\* The event loop dispatches the next job message: the handler is invoked and
\* runs processCss up to its first await (renderCss).
Receive(j) ==
  /\ running = 0
  /\ inbox # <<>>
  /\ Head(inbox) = j
  /\ inbox' = Tail(inbox)
  /\ IF HandlerRegistered(Cardinality(Started))
     THEN /\ pc' = [pc EXCEPT ![j] = "render"]
          /\ trace' = [trace EXCEPT ![j] = Append(trace[j], "renderCss")]
     ELSE /\ pc' = [pc EXCEPT ![j] = "idle"]
          /\ trace' = trace
  /\ UNCHANGED <<ip, running, port, portClosed, signal, posts, notifies, host, waitResult,
                 got, renderVars, optVars>>

\* renderCss resolves: processCss goes on to optimizeCss and awaits it.
RenderOk(j) ==
  /\ running = 0
  /\ pc[j] = "render"
  /\ pc' = [pc EXCEPT ![j] = AfterRender(TRUE)]
  /\ trace' = [trace EXCEPT ![j] =
                 IF AfterRender(TRUE) = "optimize"
                 THEN Append(trace[j], "optimizeCss")
                 ELSE trace[j]]
  /\ UNCHANGED <<inbox, ip, running, port, portClosed, signal, posts, notifies, host,
                 waitResult, got, renderVars, optVars>>

\* renderCss rejects: processCss rejects, the handler's await throws and the
\* async handler ends there with a rejected promise.
RenderFail(j) ==
  /\ running = 0
  /\ pc[j] = "render"
  /\ pc' = [pc EXCEPT ![j] = AfterRender(FALSE)]
  /\ trace' = [trace EXCEPT ![j] =
                 IF AfterRender(FALSE) = "optimize"
                 THEN trace[j] \o <<"renderRejected", "optimizeCss">>
                 ELSE Append(trace[j], "renderRejected")]
  /\ UNCHANGED <<inbox, ip, running, port, portClosed, signal, posts, notifies, host,
                 waitResult, got, renderVars, optVars>>

\* optimizeCss resolves: processCss returns {css, warnings}; the handler body
\* is ready to resume.
OptimizeOk(j) ==
  /\ running = 0
  /\ pc[j] = "optimize"
  /\ pc' = [pc EXCEPT ![j] = AfterOptimize(TRUE)]
  /\ ip' = [ip EXCEPT ![j] = IF AfterOptimize(TRUE) = "body" THEN 1 ELSE ip[j]]
  /\ trace' = [trace EXCEPT ![j] = Append(trace[j], "result")]
  /\ UNCHANGED <<inbox, running, port, portClosed, signal, posts, notifies, host,
                 waitResult, got, renderVars, optVars>>

\* optimizeCss rejects: as RenderFail.
OptimizeFail(j) ==
  /\ running = 0
  /\ pc[j] = "optimize"
  /\ pc' = [pc EXCEPT ![j] = AfterOptimize(FALSE)]
  /\ ip' = [ip EXCEPT ![j] = IF AfterOptimize(FALSE) = "body" THEN 1 ELSE ip[j]]
  /\ trace' = [trace EXCEPT ![j] = Append(trace[j], "optimizeRejected")]
  /\ UNCHANGED <<inbox, running, port, portClosed, signal, posts, notifies, host,
                 waitResult, got, renderVars, optVars>>

\* port.postMessage({...result}): the message is queued on the other side of
\* the channel, unless the port is closed already (then it is dropped).
PostMessage(j) ==
  /\ Stmt(j) = "post"
  /\ CanRun(j)
  /\ posts' = [posts EXCEPT ![PortOf(j)] = posts[PortOf(j)] + 1]
  /\ port' = [port EXCEPT ![PortOf(j)] =
                IF portClosed[PortOf(j)]
                THEN port[PortOf(j)]
                ELSE Append(port[PortOf(j)], Result(j))]
  /\ Advance(j)
  /\ UNCHANGED <<inbox, portClosed, signal, notifies, trace, host, waitResult, got,
                 renderVars, optVars>>

\* port.close(): no further sending; what is queued already stays receivable.
Close(j) ==
  /\ Stmt(j) = "close"
  /\ CanRun(j)
  /\ portClosed' = [portClosed EXCEPT ![PortOf(j)] = TRUE]
  /\ Advance(j)
  /\ UNCHANGED <<inbox, port, signal, posts, notifies, trace, host, waitResult, got,
                 renderVars, optVars>>

\* Atomics.add(signal, 0, 1)
AtomicsAdd(j) ==
  /\ Stmt(j) = "add"
  /\ CanRun(j)
  /\ signal' = [signal EXCEPT ![SignalOf(j)] = AtomicsAddValue(signal[SignalOf(j)])]
  /\ Advance(j)
  /\ UNCHANGED <<inbox, port, portClosed, posts, notifies, trace, host, waitResult, got,
                 renderVars, optVars>>

\* Atomics.notify(signal, 0): wakes the agent waiting on the cell, if any; its
\* Atomics.wait returns "ok".
AtomicsNotify(j) ==
  LET k == SignalOf(j)
  IN  /\ Stmt(j) = "notify"
      /\ CanRun(j)
      /\ notifies' = [notifies EXCEPT ![k] = notifies[k] + 1]
      /\ IF host[k] = "waiting"
         THEN /\ host' = [host EXCEPT ![k] = "returned"]
              /\ waitResult' = [waitResult EXCEPT ![k] = "ok"]
         ELSE UNCHANGED <<host, waitResult>>
      /\ Advance(j)
      /\ UNCHANGED <<inbox, port, portClosed, signal, posts, trace, got, renderVars, optVars>>

-----------------------------------------------------------------------------
(* The host of a job: posts the job message with a fresh signal cell and     *)
(* reply channel, blocks in Atomics.wait(signal, 0, 0), then takes the       *)
(* result from the reply port.                                               *)

HostSend(j) ==
  /\ host[j] = "init"
  /\ host' = [host EXCEPT ![j] = "sent"]
  /\ inbox' = Append(inbox, j)
  /\ UNCHANGED <<pc, ip, running, port, portClosed, signal, posts, notifies, trace,
                 waitResult, got, renderVars, optVars>>

\* Atomics.wait(signal, 0, 0): returns "not-equal" at once when the cell is
\* not 0, else blocks until notified.
HostWait(j) ==
  /\ host[j] = "sent"
  /\ IF signal[j] # 0
     THEN /\ host' = [host EXCEPT ![j] = "returned"]
          /\ waitResult' = [waitResult EXCEPT ![j] = "not-equal"]
     ELSE /\ host' = [host EXCEPT ![j] = "waiting"]
          /\ waitResult' = waitResult
  /\ UNCHANGED <<inbox, pc, ip, running, port, portClosed, signal, posts, notifies, trace,
                 got, renderVars, optVars>>

\* receiveMessageOnPort(port): the first queued message, or undefined.
HostReceive(j) ==
  /\ host[j] = "returned"
  /\ host' = [host EXCEPT ![j] = "received"]
  /\ IF port[j] # <<>>
     THEN /\ got' = [got EXCEPT ![j] = <<Head(port[j])>>]
          /\ port' = [port EXCEPT ![j] = Tail(port[j])]
     ELSE /\ got' = [got EXCEPT ![j] = <<"undefined">>]
          /\ port' = port
  /\ UNCHANGED <<inbox, pc, ip, running, portClosed, signal, posts, notifies, trace,
                 waitResult, renderVars, optVars>>

-----------------------------------------------------------------------------

(* renderCss(filePath, basePath, styleIncludePaths).  A path is a sequence of  *)
(* one-character strings.                                                    *)

\* The largest index of s in lo..hi that holds character c, or 0.
LastIndexOf(s, c, lo, hi) ==
  LET at == {i \in lo..hi : s[i] = c}
  IN  IF at = {} THEN 0 ELSE CHOOSE i \in at : \A k \in at : k <= i

\* path.extname (posix): the text from the last "." of the last path segment to
\* the end of that segment, trailing separators ignored; empty when the
\* segment has no ".", when its only "." is its first character, or when the
\* segment is "..".
Extname(p) ==
  LET nonSlash == {i \in 1..Len(p) : p[i] # "/"}
      end == IF nonSlash = {} THEN 0 ELSE CHOOSE i \in nonSlash : \A k \in nonSlash : k <= i
      startPart == LastIndexOf(p, "/", 1, end) + 1
      startDot == LastIndexOf(p, ".", startPart, end)
  IN  IF \/ end = 0
         \/ startDot = 0
         \/ startDot = startPart
         \/ (p[startPart] = "." /\ startDot = end /\ startDot = startPart + 1)
      THEN <<>>
      ELSE SubSeq(p, startDot, end)

ExtSass == <<".", "s", "a", "s", "s">>
ExtScss == <<".", "s", "c", "s", "s">>
ExtLess == <<".", "l", "e", "s", "s">>
ExtStyl == <<".", "s", "t", "y", "l">>
ExtStylus == <<".", "s", "t", "y", "l", "u", "s">>
ExtCss == <<".", "c", "s", "s">>

\* String.prototype.toLowerCase on the characters the inputs use.
LowerChar(c) ==
  CASE c = "S" -> "s" [] c = "C" -> "c" [] c = "L" -> "l" [] c = "E" -> "e"
    [] OTHER -> c
ToLower(s) == [i \in 1..Len(s) |-> LowerChar(s[i])]

\* The switch of renderCss with the extension lower-cased first.
RenderStrategy_IgnoreCase(ext) ==
  LET e == ToLower(ext)
  IN  CASE e = ExtSass \/ e = ExtScss -> "sass"
        [] e = ExtLess -> "less"
        [] e = ExtStyl \/ e = ExtStylus -> "stylus"
        [] OTHER -> "passthrough"

\* switch (ext): which branch of renderCss runs.
RenderStrategy(ext) ==
  CASE ext = ExtSass \/ ext = ExtScss -> "sass"
    [] ext = ExtLess -> "less"
    [] ext = ExtStyl \/ ext = ExtStylus -> "stylus"
    [] OTHER -> "passthrough"

\* indentedSyntax: '.sass' === ext
IndentedSyntax(ext) == ext = ExtSass

\* The options renderCss hands to the preprocessor of branch `strategy`.
EngineCall(strategy, compiler, path, data) ==
  [engine |-> strategy,
   compiler |-> compiler,
   file |-> path,
   data |-> data,
   indentedSyntax |-> IF strategy = "sass" THEN IndentedSyntax(Extname(path)) ELSE FALSE]

\* require('node-sass') when it is installed, else import('sass').
Compilers(strategy) == IF strategy = "sass" THEN {"node-sass", "sass"} ELSE {strategy}

\* Inputs of RenderSpec.
DirSegments == { <<"d", "/">>, <<"x", ".", "s", "c", "s", "s", ".", "d", "/">> }

RECURSIVE Prefixes(_)
Prefixes(n) ==
  IF n = 0 THEN { <<>> }
  ELSE Prefixes(n - 1) \cup {d \o q : d \in DirSegments, q \in Prefixes(n - 1)}

Stems == { <<>>, <<"a">>, <<"a", ".", "b">>, <<".">>, <<"a", ".", "s", "c", "s", "s">> }

Extensions ==
  { <<>>, ExtSass, ExtScss, ExtLess, ExtStyl, ExtStylus, ExtCss,
    <<".", "S", "C", "S", "S">>, <<".", "L", "e", "s", "s">>,
    <<".", "t", "x", "t">>, <<".">>, <<".", "s", "c", "s", "s", "/">> }

FilePaths == {d \o st \o e : d \in Prefixes(MaxDepth), st \in Stems, e \in Extensions}

Contents == {"a{color:red}", "$c: red; a{color:$c}"}

\* What a preprocessor may return.
CssTexts == {"a{color:red}", "a{color:blue}"}

Resolved(css) == [ok |-> TRUE, css |-> css, error |-> "none"]
Rejected(why) == [ok |-> FALSE, css |-> "", error |-> why]
Pending == [ok |-> FALSE, css |-> "", error |-> "pending"]

\* One call of renderCss, from its start to the settling of its promise:
\* readFile, then the switch; a preprocessor branch first loads its modules
\* (require / await import), then calls the preprocessor.
RenderCss ==
  /\ rpc = "start"
  /\ rpc' = "done"
  /\ \E readOk \in BOOLEAN :
       IF ~readOk
       THEN /\ rendered' = Rejected("readFile")
            /\ engineCalls' = engineCalls
       ELSE LET strategy == RenderStrategy(Extname(filePath))
            IN  IF strategy = "passthrough"
                THEN /\ rendered' = Resolved(content)
                     /\ engineCalls' = engineCalls
                ELSE \/ /\ rendered' = Rejected("import")
                        /\ engineCalls' = engineCalls
                     \/ \E compiler \in Compilers(strategy) :
                          /\ engineCalls' =
                               Append(engineCalls,
                                      EngineCall(strategy, compiler, filePath, content))
                          /\ \/ \E css \in CssTexts : rendered' = Resolved(css)
                             \/ rendered' = Rejected("engine")
  /\ UNCHANGED <<filePath, content, protoVars, optVars>>

-----------------------------------------------------------------------------
(* optimizeCss(filePath, css, browsers, cssUrl) and the tail of processCss.  *)

\* The values a caller passes as cssUrl: the members of the CssUrl enum, or
\* nothing.
CssUrlValues == {"none", "inline", "undefined"}

\* Target-browser lists (browserslistData).
BrowserLists == { <<"defaults">>, <<"last 2 versions", "not dead">> }

\* The test with the omitted argument treated like CssUrl.none.
IncludeUrlPlugin_OnlyWhenGiven(url) == url # "none" /\ url # "undefined"

\* if (cssUrl !== CssUrl.none)
IncludeUrlPlugin(url) == url # "none"

\* cssnano with the calc override left out.
CssnanoOptions_CalcOn == [preset |-> <<"default", [svgo |-> FALSE]>>]

\* cssnano({ preset: ['default', { svgo: false, calc: false }] })
CssnanoOptions == [preset |-> <<"default", [svgo |-> FALSE, calc |-> FALSE]>>]

UrlPlugin(url) == [plugin |-> "postcss-url", options |-> [url |-> url]]

PresetEnvPlugin(targets) ==
  [plugin |-> "postcss-preset-env",
   options |-> [browsers |-> targets, autoprefixer |-> TRUE, stage |-> 3]]

CssnanoPlugin == [plugin |-> "cssnano", options |-> CssnanoOptions]

\* The chain with the URL plugin pushed last.
PluginChain_UrlLast(url, targets) ==
  <<PresetEnvPlugin(targets), CssnanoPlugin>>
    \o (IF IncludeUrlPlugin(url) THEN <<UrlPlugin(url)>> ELSE << >>)

\* postCssPlugins after the conditional push and the push of the two others.
PluginChain(url, targets) ==
  (IF IncludeUrlPlugin(url) THEN <<UrlPlugin(url)>> ELSE << >>)
    \o <<PresetEnvPlugin(targets), CssnanoPlugin>>

\* The first index at which pat occurs in s, or 0.
IndexOf(s, pat) ==
  LET at == {i \in 1..(Len(s) - Len(pat) + 1) : SubSeq(s, i, i + Len(pat) - 1) = pat}
  IN  IF at = {} THEN 0 ELSE CHOOSE i \in at : \A k \in at : i <= k

\* String.prototype.replace with a string pattern: the first occurrence of
\* pat is replaced, the empty pattern matching at the start.
StringReplace(s, pat, rep) ==
  LET i == IndexOf(s, pat)
  IN  IF i = 0 THEN s
      ELSE SubSeq(s, 1, i - 1) \o rep \o SubSeq(s, i + Len(pat), Len(s))

\* to: filePath.replace(path.extname(filePath), '.css')
ToPath(path) == StringReplace(path, Extname(path), ExtCss)

\* What the pipeline may report: postcss Warning objects.
Warnings == { [plugin |-> "postcss-url", text |-> "w1"], [plugin |-> "", text |-> "w2"] }

RECURSIVE WarningLists(_)
WarningLists(n) ==
  IF n = 0 THEN { << >> }
  ELSE WarningLists(n - 1)
         \cup {Append(ws, w) : ws \in {x \in WarningLists(n - 1) : Len(x) = n - 1}, w \in Warnings}

\* Warning.prototype.toString: "<plugin>: <text>", or the text alone.
WarningToString(w) == IF w.plugin # "" THEN <<w.plugin, ": ", w.text>> ELSE <<w.text>>

RECURSIVE Dedupe(_)
Dedupe(ws) ==
  IF ws = << >> THEN << >>
  ELSE LET front == Dedupe(SubSeq(ws, 1, Len(ws) - 1))
           last == ws[Len(ws)]
       IN  IF \E i \in 1..Len(front) : front[i] = last THEN front ELSE Append(front, last)

\* The warnings with repeated ones dropped.
ResultWarnings_Deduped(ws) == Dedupe([i \in 1..Len(ws) |-> WarningToString(ws[i])])

\* result.warnings().map(w => w.toString())
ResultWarnings(ws) == [i \in 1..Len(ws) |-> WarningToString(ws[i])]

NoLazyResult == [state |-> "none", css |-> "", warnings |-> << >>]
NoWorkerResult == [state |-> "none", css |-> "", warnings |-> << >>]

\* optimizeCss: builds the plugin chain and starts postcss on the rendered
\* CSS; the LazyResult it returns settles as the pipeline decides.
OptimizeCss ==
  /\ opc = "start"
  /\ opc' = "awaiting"
  /\ postCssPlugins' = PluginChain(cssUrl, browsers)
  /\ processOptions' = [from |-> filePath, to |-> ToPath(filePath)]
  /\ \/ \E out \in CssTexts, ws \in WarningLists(MaxWarnings) :
          lazyResult' = [state |-> "resolved", css |-> out, warnings |-> ws]
     \/ lazyResult' = [state |-> "rejected", css |-> "", warnings |-> << >>]
  /\ UNCHANGED <<filePath, optCss, cssUrl, browsers, workerResult, content, rpc, engineCalls, rendered,
                 protoVars>>

\* processCss after `await optimizeCss(...)`: returns {css, warnings}, or
\* rejects with the pipeline's error.
ProcessCssReturn ==
  /\ opc = "awaiting"
  /\ opc' = "done"
  /\ workerResult' =
       IF lazyResult.state = "resolved"
       THEN [state |-> "resolved", css |-> lazyResult.css,
             warnings |-> ResultWarnings(lazyResult.warnings)]
       ELSE [state |-> "rejected", css |-> "", warnings |-> << >>]
  /\ UNCHANGED <<filePath, optCss, cssUrl, browsers, postCssPlugins, processOptions, lazyResult,
                 content, rpc, engineCalls, rendered, protoVars>>

-----------------------------------------------------------------------------

OptIdle ==
  /\ optCss = ""
  /\ cssUrl = "undefined"
  /\ browsers = << >>
  /\ opc = "off"
  /\ postCssPlugins = << >>
  /\ processOptions = [from |-> << >>, to |-> << >>]
  /\ lazyResult = NoLazyResult
  /\ workerResult = NoWorkerResult

RenderIdle ==
  /\ filePath = <<>>
  /\ content = ""
  /\ rpc = "off"
  /\ engineCalls = <<>>
  /\ rendered = Pending

ProtoInit ==
  /\ inbox = <<>>
  /\ pc = [j \in Jobs |-> "idle"]
  /\ ip = [j \in Jobs |-> 0]
  /\ running = 0
  /\ port = [j \in Jobs |-> <<>>]
  /\ portClosed = [j \in Jobs |-> FALSE]
  /\ signal = [j \in Jobs |-> 0]
  /\ posts = [j \in Jobs |-> 0]
  /\ notifies = [j \in Jobs |-> 0]
  /\ trace = [j \in Jobs |-> << >>]
  /\ host = [j \in Jobs |-> "init"]
  /\ waitResult = [j \in Jobs |-> "none"]
  /\ got = [j \in Jobs |-> <<>>]

Init == ProtoInit /\ RenderIdle /\ OptIdle

Next ==
  \/ \E j \in Jobs : HostSend(j)
  \/ \E j \in Jobs : Receive(j)
  \/ \E j \in Jobs : RenderOk(j)
  \/ \E j \in Jobs : RenderFail(j)
  \/ \E j \in Jobs : OptimizeOk(j)
  \/ \E j \in Jobs : OptimizeFail(j)
  \/ \E j \in Jobs : PostMessage(j)
  \/ \E j \in Jobs : Close(j)
  \/ \E j \in Jobs : AtomicsAdd(j)
  \/ \E j \in Jobs : AtomicsNotify(j)
  \/ \E j \in Jobs : HostWait(j)
  \/ \E j \in Jobs : HostReceive(j)

Spec == Init /\ [][Next]_vars

RenderInit ==
  /\ ProtoInit
  /\ filePath \in FilePaths
  /\ content \in Contents
  /\ rpc = "start"
  /\ engineCalls = <<>>
  /\ rendered = Pending
  /\ OptIdle

RenderNext == RenderCss

RenderSpec == RenderInit /\ [][RenderNext]_vars

OptimizeInit ==
  /\ ProtoInit
  /\ filePath \in FilePaths
  /\ content = ""
  /\ rpc = "off"
  /\ engineCalls = <<>>
  /\ rendered = Pending
  /\ optCss \in CssTexts
  /\ cssUrl \in CssUrlValues
  /\ browsers \in BrowserLists
  /\ opc = "start"
  /\ postCssPlugins = << >>
  /\ processOptions = [from |-> << >>, to |-> << >>]
  /\ lazyResult = NoLazyResult
  /\ workerResult = NoWorkerResult

OptimizeNext == OptimizeCss \/ ProcessCssReturn

OptimizeSpec == OptimizeInit /\ [][OptimizeNext]_vars


\* The worker thread runs the synchronous handler body to its end; the host
\* thread goes from posting the job to Atomics.wait and from the wait's return
\* to receiveMessageOnPort.  Nothing is assumed of the renderer or optimizer.
FairSpec ==
  /\ Spec
  /\ \A j \in Jobs :
       /\ WF_vars(PostMessage(j))
       /\ WF_vars(Close(j))
       /\ WF_vars(AtomicsAdd(j))
       /\ WF_vars(AtomicsNotify(j))
       /\ WF_vars(HostWait(j))
       /\ WF_vars(HostReceive(j))

-----------------------------------------------------------------------------
(* Properties of the job protocol                                            *)

Terminated(j) == pc[j] \in {"done", "errored"}

InInbox(j) == \E i \in 1..Len(inbox) : inbox[i] = j

\* C1: the completion counter of a job is incremented only after the job's
\* result was sent with port.postMessage: in no state is the counter
\* incremented with the result not posted.
C1_SignalOnlyAfterPost == \A j \in Jobs : signal[j] # 0 => posts[j] >= 1

\* C1 witness: a job has posted its result and then incremented its counter.
C1_Witness == \E j \in Jobs : signal[j] = 1 /\ posts[j] = 1

\* C2: every received job makes exactly one increment of its counter and
\* exactly one wake notification, whatever the outcome of rendering and
\* optimizing: never more than one, and one of each once the job has ended.
C2_ExactlyOneSignalPerJob ==
  \A j \in Jobs :
    /\ signal[j] <= 1
    /\ notifies[j] <= 1
    /\ Terminated(j) => (signal[j] = 1 /\ notifies[j] = 1)

\* C3: when rendering or optimizing fails the counter is still incremented
\* once and the waiter notified.
C3_ErrorPathSignals ==
  \A j \in Jobs : pc[j] = "errored" => (signal[j] = 1 /\ notifies[j] = 1)

\* C4: when rendering or optimizing fails something is sent to the host on the
\* reply channel; a failed job never ends with nothing sent.
C4_FailureReported == \A j \in Jobs : pc[j] = "errored" => posts[j] >= 1

\* C5: whenever the host's wait on the completion cell has returned, the job's
\* result is available on the host side of the reply channel (posted, and not
\* lost by port.close()), so the receive that follows the wait yields it.
C5_ResultAvailableWhenWaitReturns ==
  \A j \in Jobs :
    /\ host[j] = "returned" => (port[j] # <<>> /\ Head(port[j]) = Result(j))
    /\ host[j] = "received" => got[j] = <<Result(j)>>

\* C5 witness: a host's wait has returned after the worker closed the port,
\* and the result is queued on the host's side.
C5_Witness ==
  \E j \in Jobs : host[j] = "returned" /\ portClosed[j] /\ port[j] = <<Result(j)>>

\* C6: for a job whose render and optimize steps both succeeded, the host's
\* blocking wait eventually returns, in every interleaving of the host's wait
\* with the worker's Atomics.add and Atomics.notify.
C6_WaitReturns ==
  \A j \in Jobs : (pc[j] = "body") ~> (host[j] \in {"returned", "received"})

\* C6 witness: the worker has added and notified before the host began to wait.
C6_Witness ==
  \E j \in Jobs : host[j] = "sent" /\ pc[j] = "done" /\ signal[j] = 1 /\ notifies[j] = 1

\* C7: the reply channel is closed only after the completion signal has been
\* mutated and the waiter notified (Posting, Signaled, Closed): port.close()
\* never precedes Atomics.add and Atomics.notify.
C7_CloseAfterSignal ==
  \A j \in Jobs : portClosed[j] => (signal[j] >= 1 /\ notifies[j] >= 1)

\* C8: the result message is posted on the job's reply port exactly once per
\* job: never twice, never after the port was closed, and once by the time
\* the job has ended.
C8_PostedExactlyOnce ==
  \A j \in Jobs :
    /\ posts[j] <= 1
    /\ portClosed[j] => (posts[j] = 1 /\ Len(port[j]) + Len(got[j]) >= 1)
    /\ Terminated(j) => posts[j] = 1

\* C9 as stated: a worker instance that has received one job message never
\* starts a second job.
C9_OneJobPerWorker == Cardinality(Started) <= 1

\* C9 amended: the worker's message handler stays registered for the worker's
\* lifetime: every job message dispatched to the worker starts a job, a second
\* message on the same worker included.
C9_EveryMessageStartsAJob ==
  \A j \in Jobs : (host[j] # "init" /\ ~InInbox(j)) => pc[j] # "idle"

\* C9 witness: the same worker has started two jobs.
C9_Witness == Cardinality(Started) >= 2

\* The events of processCss of job j.
Called(j, what) == \E i \in 1..Len(trace[j]) : trace[j][i] = what

\* C12: when rendering fails the job never enters the optimizing step
\* (optimizeCss is not called), and when either step fails no result is built
\* or posted from partial output.
C12_NoOptimizeAfterRenderFailure ==
  \A j \in Jobs :
    /\ Called(j, "renderRejected") => ~Called(j, "optimizeCss")
    /\ (Called(j, "renderRejected") \/ Called(j, "optimizeRejected")) =>
         (~Called(j, "result") /\ posts[j] = 0 /\ port[j] = << >>)

\* C12 witness: a job whose renderCss rejected has ended without optimizeCss.
C12_Witness ==
  \E j \in Jobs : pc[j] = "errored" /\ trace[j] = <<"renderCss", "renderRejected">>

\* C17: when the handlers of two jobs interleave on one worker, each port only
\* ever carries the result of its own job, and each port and cell is posted
\* to, closed, incremented and notified by its own job alone, after that job's
\* processCss resolved, once each by the time the job is done.
C17_NoCrossTalk ==
  \A k \in Jobs :
    /\ \A i \in 1..Len(port[k]) : port[k][i] = Result(k)
    /\ posts[k] <= 1 /\ signal[k] <= 1 /\ notifies[k] <= 1
    /\ (posts[k] >= 1 \/ portClosed[k] \/ signal[k] >= 1 \/ notifies[k] >= 1) =>
         pc[k] \in {"body", "done"}
    /\ pc[k] = "done" =>
         (posts[k] = 1 /\ portClosed[k] /\ signal[k] = 1 /\ notifies[k] = 1)

\* C17 witness: one job is in the middle of its handler body, its result
\* posted, while the other job's handler is suspended at an await.
C17_Witness ==
  \E j, k \in Jobs :
    /\ j # k
    /\ running = j
    /\ posts[j] = 1
    /\ pc[k] \in {"render", "optimize"}
    /\ posts[k] = 0 /\ signal[k] = 0

\* C18: within a job Atomics.notify is issued only after Atomics.add, so a
\* host woken by the notification, or starting its wait after it, reads a
\* counter different from 0 and is not left waiting.
C18_NotifyAfterAdd ==
  \A j \in Jobs :
    /\ notifies[j] >= 1 => signal[j] # 0
    /\ waitResult[j] # "none" => signal[j] # 0
    /\ notifies[j] >= 1 => host[j] # "waiting"

\* C18 witness: a host blocked in its wait was woken by the notification.
C18_Witness == \E j \in Jobs : waitResult[j] = "ok" /\ notifies[j] = 1 /\ signal[j] = 1

-----------------------------------------------------------------------------
(* Properties of renderCss                                                   *)

\* The preprocessor the claim assigns to an extension, "none" for passthrough.
C10_Preprocessor(ext) ==
  IF ext = <<".", "s", "a", "s", "s">> \/ ext = <<".", "s", "c", "s", "s">> THEN "sass"
  ELSE IF ext = <<".", "l", "e", "s", "s">> THEN "less"
  ELSE IF ext = <<".", "s", "t", "y", "l">> \/ ext = <<".", "s", "t", "y", "l", "u", "s">>
       THEN "stylus"
  ELSE "none"

\* C10: renderCss selects its strategy by the exact, case-sensitive extension:
\* .sass/.scss run Sass (indented syntax iff .sass), .less runs Less,
\* .styl/.stylus run Stylus; for .css and every other extension no
\* preprocessor is invoked and the returned text is the file content.
\* (A preprocessor runs once the file was read and its module loaded.)
C10_DispatchByExactExtension ==
  rpc = "done" =>
    LET ext == Extname(filePath)
        want == C10_Preprocessor(ext)
    IN  /\ Len(engineCalls) <= 1
        /\ \A i \in 1..Len(engineCalls) :
             /\ engineCalls[i].engine = want
             /\ engineCalls[i].indentedSyntax = (ext = <<".", "s", "a", "s", "s">>)
        /\ (want # "none" /\ rendered.error \in {"none", "engine"}) => Len(engineCalls) = 1
        /\ (want = "none" /\ rendered.error # "readFile") => rendered = Resolved(content)

\* C10 witness: a file with extension .SCSS was rendered by passthrough.
C10_Witness ==
  /\ rpc = "done"
  /\ Extname(filePath) = <<".", "S", "C", "S", "S">>
  /\ engineCalls = <<>>
  /\ rendered = Resolved(content)

-----------------------------------------------------------------------------
(* Properties of optimizeCss and of the result processCss builds             *)

OptimizeCalled == opc \in {"awaiting", "done"}

\* The names of the plugins of the chain, in chain order.
PluginNames == [i \in 1..Len(postCssPlugins) |-> postCssPlugins[i].plugin]

HasPlugin(name) == \E i \in 1..Len(postCssPlugins) : postCssPlugins[i].plugin = name

\* C11: the URL-rewrite plugin is absent from the chain when cssUrl is none
\* and present for any other value, the omitted cssUrl included; the preset
\* and the minifier are present in every case.
C11_UrlPluginIffNotNone ==
  OptimizeCalled =>
    /\ cssUrl = "none" => ~HasPlugin("postcss-url")
    /\ cssUrl # "none" =>
         \E i \in 1..Len(postCssPlugins) :
           postCssPlugins[i].plugin = "postcss-url" /\ postCssPlugins[i].options.url = cssUrl
    /\ HasPlugin("postcss-preset-env")
    /\ HasPlugin("cssnano")

\* C11 witness: optimizeCss was called without cssUrl and the chain has the
\* URL-rewrite plugin.
C11_Witness == OptimizeCalled /\ cssUrl = "undefined" /\ HasPlugin("postcss-url")

\* C13: the chain is always URL-rewrite (when present), preset, minifier, in
\* that order: three plugins when cssUrl is not none, two when it is.
C13_FixedChainOrder ==
  OptimizeCalled =>
    PluginNames = IF cssUrl = "none"
                  THEN <<"postcss-preset-env", "cssnano">>
                  ELSE <<"postcss-url", "postcss-preset-env", "cssnano">>

\* C13 witness: a chain of three plugins built for cssUrl = inline.
C13_Witness == OptimizeCalled /\ cssUrl = "inline" /\ Len(postCssPlugins) = 3

\* The path with the extension at its end (the text path.extname returns,
\* where it stands) replaced by .css.
TrailingExtensionReplaced(path) ==
  LET ext == Extname(path)
      nonSlash == {i \in 1..Len(path) : path[i] # "/"}
      end == CHOOSE i \in nonSlash : \A k \in nonSlash : k <= i
  IN  SubSeq(path, 1, end - Len(ext)) \o ExtCss \o SubSeq(path, end + 1, Len(path))

\* C14: the "to" path handed to the pipeline is the file path with only its
\* trailing extension replaced by .css, for every file path; a path with no
\* extension has nothing replaced (or, at most, .css appended).
C14_ToPathReplacesTrailingExtension ==
  OptimizeCalled =>
    IF Extname(filePath) = << >>
    THEN processOptions.to \in {filePath, filePath \o ExtCss}
    ELSE processOptions.to = TrailingExtensionReplaced(filePath)

\* C15: the warnings of a successful result have the length and the order of
\* the pipeline's warning list, each the string form of its warning, nothing
\* dropped, merged or reordered; warnings never make the job fail.
C15_WarningsKeptInOrder ==
  (opc = "done" /\ lazyResult.state = "resolved") =>
    /\ workerResult.state = "resolved"
    /\ workerResult.css = lazyResult.css
    /\ Len(workerResult.warnings) = Len(lazyResult.warnings)
    /\ \A i \in 1..Len(lazyResult.warnings) :
         workerResult.warnings[i] = WarningToString(lazyResult.warnings[i])

\* C15 witness: the pipeline reported the same warning twice and the result
\* carries both.
C15_Witness ==
  /\ opc = "done"
  /\ Len(lazyResult.warnings) = 2
  /\ lazyResult.warnings[1] = lazyResult.warnings[2]
  /\ Len(workerResult.warnings) = 2

\* C16: in every call of optimizeCss the minifier is configured with the
\* default preset and with both overrides, svgo = false and calc = false.
C16_MinifierOverrides ==
  OptimizeCalled =>
    \E i \in 1..Len(postCssPlugins) :
      /\ postCssPlugins[i].plugin = "cssnano"
      /\ postCssPlugins[i].options.preset[1] = "default"
      /\ {"svgo", "calc"} \subseteq DOMAIN postCssPlugins[i].options.preset[2]
      /\ postCssPlugins[i].options.preset[2].svgo = FALSE
      /\ postCssPlugins[i].options.preset[2].calc = FALSE

\* C16 witness: optimizeCss was called with cssUrl = none and a two-entry
\* browser list, and the chain holds the minifier.
C16_Witness ==
  OptimizeCalled /\ cssUrl = "none" /\ Len(browsers) = 2 /\ HasPlugin("cssnano")

=============================================================================
